---- MODULE Spec2Model ----
(***************************************************************************)
(* Model of the Python package manager CLI (src/src/lib.rs, src/src/main.rs) *)
(* Strings are sequences of one-character strings, so that trimming and     *)
(* splitting are computed and not assumed.                                  *)
(***************************************************************************)
EXTENDS Integers, Sequences, FiniteSets, TLC

(* ------------------------------------------------------------------ *)
(* Bounds                                                             *)
(* ------------------------------------------------------------------ *)
\* longest batch of raw specs given to one install command
MaxBatch == 2
\* largest number of threads the rayon pool of the machine may have
MaxWorkers == 2
\* calls of the batch functions a client of the library makes in a row
MaxCalls == 2
\* longest raw token handed to the parser
MaxLen == 4
\* most lines of a requirements file
MaxLines == 2

(* ------------------------------------------------------------------ *)
(* Strings                                                            *)
(* ------------------------------------------------------------------ *)
S_a1 == <<"a", "=", "=", "1">>
S_a2 == <<"a", "=", "=", "2">>
S_b == <<" ", "b">>
S_bad == <<"c", "=", "=">>
\* the raw tokens a batch is drawn from
RawSpecs == {S_a1, S_a2, S_b, S_bad}

N_a == <<"a">>
N_b == <<"b">>
V_1 == <<"1">>
V_2 == <<"2">>
V_3 == <<"3">>
Unknown == <<"u", "n", "k", "n", "o", "w", "n">>
SepStr == <<"=", "=">>

\* the Option type: None is the empty sequence, Some(v) is <<v>>
None == <<>>
Some(v) == <<v>>

\* char::is_whitespace, on the characters the model uses
IsWhitespace(c) == c \in {" ", "\t"}

RECURSIVE trim_start(_)
trim_start(s) ==
    IF s # <<>> /\ IsWhitespace(Head(s)) THEN trim_start(Tail(s)) ELSE s

RECURSIVE trim_end(_)
trim_end(s) ==
    IF s # <<>> /\ IsWhitespace(s[Len(s)])
    THEN trim_end(SubSeq(s, 1, Len(s) - 1))
    ELSE s

trim(s) == trim_end(trim_start(s))

\* positions at which the separator "==" starts
SepPositions(s) == {i \in 1..(Len(s) - 1) : s[i] = "=" /\ s[i + 1] = "="}

contains_sep(s) == SepPositions(s) # {}

FirstSep(s) == CHOOSE i \in SepPositions(s) : \A j \in SepPositions(s) : i <= j

\* spec.splitn(2, "=="): at most two parts, split at the first separator
splitn2(s) ==
    IF contains_sep(s)
    THEN <<SubSeq(s, 1, FirstSep(s) - 1), SubSeq(s, FirstSep(s) + 2, Len(s))>>
    ELSE <<s>>

(* ------------------------------------------------------------------ *)
(* Results and errors                                                 *)
(* ------------------------------------------------------------------ *)
\* Ok(()) and the errors; payload says what the error's text is: a fixed
\* message, the stderr of the external command, or the count of failed items
OkUnit == [ok |-> TRUE, err |-> "none", payload |-> "none", count |-> 0]
ErrOf(kind) == [ok |-> FALSE, err |-> kind, payload |-> "message", count |-> 0]
ErrStderr(kind) == [ok |-> FALSE, err |-> kind, payload |-> "stderr", count |-> 0]
\* InstallationFailed("<n> packages failed to install")
ErrCount(n) ==
    [ok |-> FALSE, err |-> "InstallationFailed", payload |-> "count", count |-> n]

ParseOk(name, version) ==
    [ok |-> TRUE, name |-> name, version |-> version, err |-> "none"]
ParseErr == [ok |-> FALSE, name |-> <<>>, version |-> None, err |-> "InvalidPackageSpec"]

\* a parser that splits at the last separator (rsplitn)
parse_package_spec_split_last(spec) ==
    LET s == trim(spec) IN
    IF s = <<>> THEN ParseErr
    ELSE IF contains_sep(s)
    THEN LET last == CHOOSE i \in SepPositions(s) : \A j \in SepPositions(s) : j <= i
             name == trim(SubSeq(s, 1, last - 1))
             version == trim(SubSeq(s, last + 2, Len(s)))
         IN IF name = <<>> \/ version = <<>>
            THEN ParseErr
            ELSE ParseOk(name, Some(version))
    ELSE ParseOk(s, None)

parse_package_spec(spec) ==
    LET s == trim(spec) IN
    IF s = <<>> THEN ParseErr
    ELSE LET parts == splitn2(s) IN
         IF Len(parts) = 2
         THEN LET name == trim(parts[1])
                  version == trim(parts[2])
              IN IF name = <<>> \/ version = <<>>
                 THEN ParseErr
                 ELSE ParseOk(name, Some(version))
         ELSE LET name == trim(parts[1])
              IN IF name = <<>> THEN ParseErr ELSE ParseOk(name, None)

\* the argument handed to pip for a parsed spec: name or name==version
package_spec(p) ==
    IF p.version = None THEN p.name ELSE p.name \o SepStr \o p.version[1]

(* ------------------------------------------------------------------ *)
(* Registry                                                           *)
(* ------------------------------------------------------------------ *)
Package(name, version) == [name |-> name, version |-> version]

EmptyRegistry == [n \in {} |-> Package(<<>>, <<>>)]

\* a registry that keeps the entry it already has (entry().or_insert)
add_package_keep_existing(reg, package) ==
    [n \in (DOMAIN reg) \cup {package.name} |->
        IF n \in DOMAIN reg THEN reg[n] ELSE package]

add_package(reg, package) ==
    [n \in (DOMAIN reg) \cup {package.name} |->
        IF n = package.name THEN package ELSE reg[n]]

\* a removal that leaves the map as it is
remove_package_nothing(reg, name) == reg

\* the registry after self.packages.remove(name)
remove_package(reg, name) ==
    [n \in (DOMAIN reg) \ {name} |-> reg[n]]

\* what remove_package returns: the removed package if it existed
removed_package(reg, name) == IF name \in DOMAIN reg THEN Some(reg[name]) ELSE None

get_package(reg, name) == IF name \in DOMAIN reg THEN Some(reg[name]) ELSE None

is_empty(reg) == DOMAIN reg = {}

(* ------------------------------------------------------------------ *)
(* The external tool                                                  *)
(* ------------------------------------------------------------------ *)
\* how one run of `python -m pip install|uninstall ...` can end:
\* Command::output() fails, or the child exits with or without success
CommandOutcomes == {"ok", "nonzero", "spawn_err"}

VersionPrefix == <<"V", "e", "r", "s", "i", "o", "n", ":", " ">>
Line_name == <<"N", "a", "m", "e", ":", " ", "b">>
Line_version == VersionPrefix \o <<"3", " ">>

\* what one run of `python -m pip show <name>` can produce
QueryOutput(spawned, success, stdout) ==
    [run |-> TRUE, spawned |-> spawned, success |-> success, stdout |-> stdout]
Q_spawn_err == QueryOutput(FALSE, FALSE, <<>>)
Q_nonzero == QueryOutput(TRUE, FALSE, <<>>)
Q_no_version == QueryOutput(TRUE, TRUE, <<Line_name>>)
Q_version == QueryOutput(TRUE, TRUE, <<Line_name, Line_version>>)
\* no `pip show` was run
Q_not_run == [run |-> FALSE, spawned |-> FALSE, success |-> FALSE, stdout |-> <<>>]
QueryOutputs == {Q_spawn_err, Q_nonzero, Q_no_version, Q_version}

starts_with(s, prefix) ==
    Len(s) >= Len(prefix) /\ SubSeq(s, 1, Len(prefix)) = prefix

strip_prefix(s, prefix) == SubSeq(s, Len(prefix) + 1, Len(s))

VersionLines(stdout) ==
    {i \in 1..Len(stdout) : starts_with(stdout[i], VersionPrefix)}

VersionOk(v) == [ok |-> TRUE, version |-> v, err |-> "none"]
VersionErr == [ok |-> FALSE, version |-> <<>>, err |-> "IoError"]

get_installed_version(output) ==
    IF ~output.spawned THEN VersionErr
    ELSE IF output.success
    THEN IF VersionLines(output.stdout) = {}
         THEN VersionOk(Unknown)
         ELSE LET i == CHOOSE k \in VersionLines(output.stdout) :
                          \A j \in VersionLines(output.stdout) : k <= j
              IN VersionOk(trim(strip_prefix(output.stdout[i], VersionPrefix)))
    ELSE VersionOk(Unknown)

\* one external command in the log of commands issued
Cmd(kind, args) == [kind |-> kind, args |-> args]

(* ------------------------------------------------------------------ *)
(* Sequential installation                                            *)
(* ------------------------------------------------------------------ *)
CallResult(reg, result, cmds) == [registry |-> reg, result |-> result, cmds |-> cmds]

AllParse(packages) == \A i \in 1..Len(packages) : parse_package_spec(packages[i]).ok

\* a preparation that drops the specs it cannot parse
prepare_package_specs_skip_invalid(packages) ==
    LET valid == SelectSeq(packages, LAMBDA x : parse_package_spec(x).ok)
    IN [ok |-> TRUE,
        specs |-> [i \in 1..Len(valid) |-> package_spec(parse_package_spec(valid[i]))]]

prepare_package_specs(packages) ==
    IF AllParse(packages)
    THEN [ok |-> TRUE,
          specs |-> [i \in 1..Len(packages) |->
                        package_spec(parse_package_spec(packages[i]))]]
    ELSE [ok |-> FALSE, specs |-> <<>>]

\* a loop that returns after its first iteration
update_registry_loop_first_only(reg, packages, q, i) ==
    IF i > Len(packages) THEN CallResult(reg, OkUnit, <<>>)
    ELSE LET p == parse_package_spec(packages[i]) IN
         IF ~p.ok THEN CallResult(reg, ErrOf("InvalidPackageSpec"), <<>>)
         ELSE IF p.version # None
         THEN CallResult(add_package(reg, Package(p.name, p.version[1])), OkUnit, <<>>)
         ELSE LET v == get_installed_version(q[i])
                  show == <<Cmd("show", <<p.name>>)>>
              IN IF ~v.ok THEN CallResult(reg, ErrOf("IoError"), show)
                 ELSE CallResult(add_package(reg, Package(p.name, v.version)),
                                 OkUnit, show)

\* the loop "for spec in packages" of install_packages, from position i on
RECURSIVE update_registry_loop(_, _, _, _)
update_registry_loop(reg, packages, q, i) ==
    IF i > Len(packages) THEN CallResult(reg, OkUnit, <<>>)
    ELSE LET p == parse_package_spec(packages[i]) IN
         IF ~p.ok THEN CallResult(reg, ErrOf("InvalidPackageSpec"), <<>>)
         ELSE IF p.version # None
         THEN update_registry_loop(
                  add_package(reg, Package(p.name, p.version[1])), packages, q, i + 1)
         ELSE LET v == get_installed_version(q[i])
                  show == <<Cmd("show", <<p.name>>)>>
              IN IF ~v.ok THEN CallResult(reg, ErrOf("IoError"), show)
                 ELSE LET r == update_registry_loop(
                                   add_package(reg, Package(p.name, v.version)),
                                   packages, q, i + 1)
                      IN CallResult(r.registry, r.result, show \o r.cmds)

\* an install_packages without the check for an empty list
install_packages_no_empty_check(reg, packages, py, out, q) ==
    IF ~py THEN CallResult(reg, ErrOf("PythonNotFound"), <<>>)
    ELSE LET specs == prepare_package_specs(packages) IN
         IF ~specs.ok THEN CallResult(reg, ErrOf("InvalidPackageSpec"), <<>>)
         ELSE LET install == <<Cmd("install", specs.specs)>> IN
              IF out = "spawn_err" THEN CallResult(reg, ErrOf("IoError"), install)
              ELSE IF out # "ok"
              THEN CallResult(reg, ErrStderr("InstallationFailed"), install)
              ELSE LET r == update_registry_loop(reg, packages, q, 1)
                   IN CallResult(r.registry, r.result, install \o r.cmds)

\* install_packages: py is whether the interpreter was found, out how the one
\* pip command ended, q[i] what `pip show` printed for item i
install_packages(reg, packages, py, out, q) ==
    IF packages = <<>> THEN CallResult(reg, OkUnit, <<>>)
    ELSE IF ~py THEN CallResult(reg, ErrOf("PythonNotFound"), <<>>)
    ELSE LET specs == prepare_package_specs(packages) IN
         IF ~specs.ok THEN CallResult(reg, ErrOf("InvalidPackageSpec"), <<>>)
         ELSE LET install == <<Cmd("install", specs.specs)>> IN
              IF out = "spawn_err" THEN CallResult(reg, ErrOf("IoError"), install)
              ELSE IF out # "ok"
              THEN CallResult(reg, ErrStderr("InstallationFailed"), install)
              ELSE LET r == update_registry_loop(reg, packages, q, 1)
                   IN CallResult(r.registry, r.result, install \o r.cmds)

(* ------------------------------------------------------------------ *)
(* Delete and update                                                  *)
(* ------------------------------------------------------------------ *)
\* a delete that drops the entry before the uninstall has reported
delete_package_remove_first(reg, name, py, out) ==
    IF trim(name) = <<>> THEN CallResult(reg, ErrOf("InvalidPackageSpec"), <<>>)
    ELSE IF ~py THEN CallResult(reg, ErrOf("PythonNotFound"), <<>>)
    ELSE LET uninstall == <<Cmd("uninstall", <<name>>)>>
             removed == remove_package(reg, name)
         IN IF out = "spawn_err" THEN CallResult(removed, ErrOf("IoError"), uninstall)
            ELSE IF out # "ok"
            THEN CallResult(removed, ErrStderr("UninstallationFailed"), uninstall)
            ELSE CallResult(removed, OkUnit, uninstall)

delete_package(reg, name, py, out) ==
    IF trim(name) = <<>> THEN CallResult(reg, ErrOf("InvalidPackageSpec"), <<>>)
    ELSE IF ~py THEN CallResult(reg, ErrOf("PythonNotFound"), <<>>)
    ELSE LET uninstall == <<Cmd("uninstall", <<name>>)>> IN
         IF out = "spawn_err" THEN CallResult(reg, ErrOf("IoError"), uninstall)
         ELSE IF out # "ok"
         THEN CallResult(reg, ErrStderr("UninstallationFailed"), uninstall)
         ELSE CallResult(remove_package(reg, name), OkUnit, uninstall)

update_package(reg, name, version, py, out, qout) ==
    IF trim(name) = <<>> \/ trim(version) = <<>>
    THEN CallResult(reg, ErrOf("InvalidPackageSpec"), <<>>)
    ELSE IF ~py THEN CallResult(reg, ErrOf("PythonNotFound"), <<>>)
    ELSE LET upgrade == <<Cmd("upgrade", <<name \o SepStr \o version>>)>> IN
         IF out = "spawn_err" THEN CallResult(reg, ErrOf("IoError"), upgrade)
         ELSE IF out # "ok"
         THEN CallResult(reg, ErrStderr("InstallationFailed"), upgrade)
         ELSE LET v == get_installed_version(qout)
                  show == <<Cmd("show", <<name>>)>>
              IN IF ~v.ok THEN CallResult(reg, ErrOf("IoError"), upgrade \o show)
                 ELSE CallResult(add_package(reg, Package(name, v.version)),
                                 OkUnit, upgrade \o show)

\* get_exit_code of main.rs
get_exit_code(error) ==
    CASE error.err = "PythonNotFound" -> 3
      [] error.err \in {"InstallationFailed", "UninstallationFailed"} -> 4
      [] error.err = "InvalidPackageSpec" -> 5
      [] error.err = "PackageNotFound" -> 6
      [] OTHER -> 1

(* ------------------------------------------------------------------ *)
(* One item of a parallel batch                                       *)
(* ------------------------------------------------------------------ *)
ItemOk(name, version) ==
    [ok |-> TRUE, name |-> name, version |-> version, err |-> "none"]
ItemErr(name, kind) ==
    [ok |-> FALSE, name |-> name, version |-> <<>>, err |-> kind]

\* install_single_package: out is how `pip install <spec>` ended, qout what
\* the follow-up `pip show` printed
\* a worker that never asks pip for the installed version
install_single_package_no_query(pkg, out, qout) ==
    LET p == parse_package_spec(pkg) IN
    IF ~p.ok THEN ItemErr(<<>>, "InvalidPackageSpec")
    ELSE IF out = "spawn_err" THEN ItemErr(p.name, "IoError")
    ELSE IF out # "ok" THEN ItemErr(p.name, "InstallationFailed")
    ELSE IF p.version # None THEN ItemOk(p.name, p.version[1])
    ELSE ItemOk(p.name, Unknown)

install_single_package(pkg, out, qout) ==
    LET p == parse_package_spec(pkg) IN
    IF ~p.ok THEN ItemErr(<<>>, "InvalidPackageSpec")
    ELSE IF out = "spawn_err" THEN ItemErr(p.name, "IoError")
    ELSE IF out # "ok" THEN ItemErr(p.name, "InstallationFailed")
    ELSE IF p.version # None THEN ItemOk(p.name, p.version[1])
    ELSE LET v == get_installed_version(qout)
         IN ItemOk(p.name, IF v.ok THEN v.version ELSE Unknown)

\* whether install_single_package runs `pip show` for this item
queries_version(pkg, out) ==
    LET p == parse_package_spec(pkg) IN p.ok /\ out = "ok" /\ p.version = None

\* results gathered as the workers deliver them
collect_in_completion_order(r, order) == [i \in 1..Len(order) |-> r[order[i]]]

\* a join that returns as soon as one item is done
join_on_first(st) == \E i \in DOMAIN st : st[i] = "done"

\* collect() returns when every item of the iterator has been processed
join_complete(st) == \A i \in DOMAIN st : st[i] = "done"

\* packages.par_iter().map(..).collect(): the results in input order
collect(r, order) == [i \in 1..Len(order) |-> r[i]]

(* ------------------------------------------------------------------ *)
(* State                                                              *)
(* ------------------------------------------------------------------ *)
VARIABLES
    file,           \* packages.json on disk
    pc,             \* where main is
    registry,       \* package_registry of main
    command,        \* the command of this invocation
    packs,          \* the batch of raw specs of an install command
    status,         \* parallel batch: per item "pending", "running", "done"
    res,            \* parallel batch: per item, what the closure returned
    completion,     \* parallel batch: items in the order they completed
    results,        \* the collected Vec<Result<(String, String)>>
    cursor,         \* position of "for result in results"
    lock,           \* holder of registry_mutex: "none" or "main"
    success_count,
    failure_count,
    failures,       \* the "x <error>" lines on stderr, as items, in print order
    pb,             \* the progress bar
    result,         \* what the command returned
    exit_code,      \* -1 while the process runs
    cmds,           \* external commands, in the order their output() returned
    workers,        \* number of threads of the rayon pool
    calls,          \* calls of the batch functions made so far
    tool,           \* per item, how the external tool behaved for it
    registry0,      \* package_registry when the command was entered
    arg,            \* a function of the crate called on its own: its argument
    ret             \* and what it returned

vars == <<file, pc, registry, command, packs, status, res, completion, results,
          cursor, lock, success_count, failure_count, failures, pb, result,
          exit_code, cmds, workers, calls, tool, registry0, arg, ret>>

unitVars == <<arg, ret>>

batchVars == <<status, res, completion, results, cursor, lock, success_count,
               failure_count, failures, pb>>

FileMissing == [state |-> "missing", packages |-> EmptyRegistry]
FileCorrupt == [state |-> "corrupt", packages |-> EmptyRegistry]
FileUnreadable == [state |-> "unreadable", packages |-> EmptyRegistry]
FileOk(reg) == [state |-> "ok", packages |-> reg]

N_d == <<"d">>
Reg0 == add_package(add_package(EmptyRegistry, Package(N_a, V_2)), Package(N_d, V_1))

\* a registry that deserializes although the key of its entry, b, is not the
\* name of the entry's package, d
RegMismatch == [n \in {N_b} |-> Package(N_d, V_1)]

InitialFiles ==
    {FileMissing, FileCorrupt, FileUnreadable, FileOk(Reg0), FileOk(RegMismatch)}

NoCommand == [kind |-> "none", parallel |-> FALSE, name |-> <<>>, version |-> <<>>]
NoResult == [ok |-> FALSE, err |-> "pending", payload |-> "none", count |-> 0]
NoTool == [install |-> "not_run", query |-> Q_not_run]
NoPb == [created |-> FALSE, len |-> 0, pos |-> 0, finished |-> 0]

RECURSIVE SeqsUpTo(_, _)
SeqsUpTo(S, n) ==
    IF n = 0 THEN {<<>>}
    ELSE LET shorter == SeqsUpTo(S, n - 1)
         IN shorter \cup {Append(q, x) : q \in {t \in shorter : Len(t) = n - 1}, x \in S}

\* the batch "a==1.0", "b", "bad spec with space" with its tokens shortened
\* to "a==1", " b" and "c d"
S_sp == <<"c", " ", "d">>
Scenario == <<S_a1, S_b, S_sp>>

Batches == SeqsUpTo(RawSpecs, MaxBatch) \cup {Scenario}

Init ==
    /\ file \in InitialFiles
    /\ pc = "start"
    /\ registry = EmptyRegistry
    /\ command = NoCommand
    /\ packs = <<>>
    /\ status = <<>>
    /\ res = <<>>
    /\ completion = <<>>
    /\ results = <<>>
    /\ cursor = 0
    /\ lock = "none"
    /\ success_count = 0
    /\ failure_count = 0
    /\ failures = <<>>
    /\ pb = NoPb
    /\ result = NoResult
    /\ exit_code = -1
    /\ cmds = <<>>
    /\ workers = 0
    /\ calls = 0
    /\ arg = <<>>
    /\ ret = <<>>
    /\ tool = <<>>
    /\ registry0 = EmptyRegistry

(* ------------------------------------------------------------------ *)
(* main: load                                                         *)
(* ------------------------------------------------------------------ *)
load_packages(f) ==
    CASE f.state = "missing" -> [ok |-> TRUE, registry |-> EmptyRegistry]
      [] f.state = "unreadable" -> [ok |-> FALSE, registry |-> EmptyRegistry]
      [] f.state = "corrupt" -> [ok |-> TRUE, registry |-> EmptyRegistry]
      [] OTHER -> [ok |-> TRUE, registry |-> f.packages]

Load ==
    /\ pc = "start"
    /\ LET l == load_packages(file) IN
       IF l.ok
       THEN /\ registry' = l.registry
            /\ registry0' = l.registry
            /\ pc' = "loaded"
            /\ exit_code' = exit_code
       ELSE /\ exit_code' = 1
            /\ pc' = "exited"
            /\ UNCHANGED <<registry, registry0>>
    /\ UNCHANGED <<file, command, packs, batchVars, result, cmds, workers, tool,
                   calls,
                   unitVars>>

(* ------------------------------------------------------------------ *)
(* main: the commands                                                 *)
(* ------------------------------------------------------------------ *)
\* a command that runs in one piece returns r
Returns(r) ==
    /\ registry' = r.registry
    /\ result' = r.result
    /\ cmds' = cmds \o r.cmds
    /\ pc' = "returned"

IsVersionless(pkg) ==
    LET p == parse_package_spec(pkg) IN p.ok /\ p.version = None

\* whether the loop of install_packages runs `pip show` for item i
SeqQueryRun(packages, py, out, q, i) ==
    /\ py
    /\ AllParse(packages)
    /\ out = "ok"
    /\ IsVersionless(packages[i])
    /\ \A j \in 1..(i - 1) : IsVersionless(packages[j]) => q[j].spawned

\* handle_install_command with no package given
InstallNothing ==
    /\ pc = "loaded"
    /\ command' = [NoCommand EXCEPT !.kind = "install"]
    /\ Returns(CallResult(registry, ErrOf("InvalidPackageSpec"), <<>>))
    /\ UNCHANGED <<file, packs, batchVars, exit_code, workers, tool, registry0,
                   calls,
                   unitVars>>

\* a call of install_packages with a batch of B
InstallSequentialFrom(B) ==
    /\ pc = "loaded"
    /\ calls < MaxCalls
    /\ calls' = calls + 1
    /\ \E packages \in B, py \in BOOLEAN, out \in CommandOutcomes :
       \E q \in [1..Len(packages) -> QueryOutputs] :
          /\ command' = [NoCommand EXCEPT !.kind = "install"]
          /\ packs' = packages
          /\ tool' = [i \in 1..Len(packages) |->
                        [install |-> IF py /\ AllParse(packages) THEN out ELSE "not_run",
                         query |-> IF SeqQueryRun(packages, py, out, q, i)
                                   THEN q[i] ELSE Q_not_run]]
          /\ Returns(install_packages(registry, packages, py, out, q))
    /\ UNCHANGED <<file, batchVars, exit_code, workers, registry0,
                   unitVars>>

\* install <spec...>: main hands over the non-empty list of the command line
InstallSequential == InstallSequentialFrom(Batches \ {<<>>})

\* a progress bar announced with a total of zero
create_progress_bar_empty(len) ==
    [created |-> TRUE, len |-> 0, pos |-> 0, finished |-> 0]

\* ProgressBar::new(len): announced with the total, position zero
create_progress_bar(len) ==
    [created |-> TRUE, len |-> len, pos |-> 0, finished |-> 0]

\* a call of install_packages_parallel with a batch of B, up to the creation
\* of the progress bar
InstallParallelBeginFrom(B) ==
    /\ pc = "loaded"
    /\ calls < MaxCalls
    /\ calls' = calls + 1
    /\ \E packages \in B, py \in BOOLEAN, n \in 1..MaxWorkers :
          /\ command' = [NoCommand EXCEPT !.kind = "install", !.parallel = TRUE]
          /\ packs' = packages
          /\ tool' = [i \in 1..Len(packages) |-> NoTool]
          /\ IF packages = <<>>
             THEN /\ result' = OkUnit
                  /\ pc' = "returned"
                  /\ UNCHANGED <<pb, status, res, workers>>
             ELSE IF py
             THEN /\ workers' = n
                  /\ pb' = create_progress_bar(Len(packages))
                  /\ status' = [i \in 1..Len(packages) |-> "pending"]
                  /\ res' = [i \in 1..Len(packages) |->
                               [item |-> i, outcome |-> ItemErr(<<>>, "pending")]]
                  /\ pc' = "workers"
                  /\ UNCHANGED result
             ELSE /\ result' = ErrOf("PythonNotFound")
                  /\ pc' = "returned"
                  /\ UNCHANGED <<pb, status, res, workers>>
    /\ UNCHANGED <<file, registry, completion, results, cursor, lock, success_count,
                   failure_count, failures, exit_code, cmds, registry0,
                   unitVars>>

\* install <spec...> --parallel
InstallParallelBegin == InstallParallelBeginFrom(Batches \ {<<>>})

Running == {i \in DOMAIN status : status[i] = "running"}

\* a pool that hands out no further item once an item has failed
WorkerStartUnlessFailed(i) ==
    /\ pc = "workers"
    /\ status[i] = "pending"
    /\ Cardinality(Running) < workers
    /\ \A j \in DOMAIN status : status[j] = "done" => res[j].outcome.ok
    /\ LET p == parse_package_spec(packs[i]) IN
       IF p.ok
       THEN /\ status' = [status EXCEPT ![i] = "running"]
            /\ UNCHANGED <<res, completion, pb>>
       ELSE /\ status' = [status EXCEPT ![i] = "done"]
            /\ res' = [res EXCEPT ![i].outcome =
                          install_single_package(packs[i], "not_run", Q_not_run)]
            /\ completion' = Append(completion, i)
            /\ pb' = [pb EXCEPT !.pos = @ + 1]
    /\ UNCHANGED <<file, pc, registry, command, packs, results, cursor, lock,
                   success_count, failure_count, failures, result, exit_code, cmds,
                   workers, tool, registry0, calls, unitVars>>

\* a free worker takes item i: it parses the spec and starts pip, or returns
\* the parse error at once
WorkerStart(i) ==
    /\ pc = "workers"
    /\ status[i] = "pending"
    /\ Cardinality(Running) < workers
    /\ LET p == parse_package_spec(packs[i]) IN
       IF p.ok
       THEN /\ status' = [status EXCEPT ![i] = "running"]
            /\ UNCHANGED <<res, completion, pb>>
       ELSE /\ status' = [status EXCEPT ![i] = "done"]
            /\ res' = [res EXCEPT ![i].outcome =
                          install_single_package(packs[i], "not_run", Q_not_run)]
            /\ completion' = Append(completion, i)
            /\ pb' = [pb EXCEPT !.pos = @ + 1]
    /\ UNCHANGED <<file, pc, registry, command, packs, results, cursor, lock,
                   success_count, failure_count, failures, result, exit_code, cmds,
                   workers, tool, registry0,
                   calls,
                   unitVars>>

\* pip ends for item i and the worker returns the item's result
WorkerFinish(i) ==
    /\ pc = "workers"
    /\ status[i] = "running"
    /\ \E out \in CommandOutcomes, qout \in QueryOutputs :
          LET asked == queries_version(packs[i], out)
              p == parse_package_spec(packs[i])
          IN /\ res' = [res EXCEPT ![i].outcome =
                           install_single_package(packs[i], out, qout)]
             /\ tool' = [tool EXCEPT ![i] =
                           [install |-> out,
                            query |-> IF asked THEN qout ELSE Q_not_run]]
             /\ cmds' = cmds \o <<Cmd("install", <<package_spec(p)>>)>>
                             \o (IF asked THEN <<Cmd("show", <<p.name>>)>> ELSE <<>>)
    /\ status' = [status EXCEPT ![i] = "done"]
    /\ completion' = Append(completion, i)
    /\ pb' = [pb EXCEPT !.pos = @ + 1]
    /\ UNCHANGED <<file, pc, registry, command, packs, results, cursor, lock,
                   success_count, failure_count, failures, result, exit_code,
                   workers, registry0,
                   calls,
                   unitVars>>

\* every item is done: collect() returns and the progress bar is finished
Finish ==
    /\ pc = "workers"
    /\ join_complete(status)
    /\ results' = collect(res, completion)
    /\ pb' = [pb EXCEPT !.finished = @ + 1]
    /\ cursor' = 1
    /\ pc' = "merge"
    /\ UNCHANGED <<file, registry, command, packs, status, res, completion, lock,
                   success_count, failure_count, failures, result, exit_code, cmds,
                   workers, tool, registry0,
                   calls,
                   unitVars>>

\* process_installation_results, Ok arm: registry_mutex.lock()
MergeLock ==
    /\ pc = "merge"
    /\ cursor <= Len(results)
    /\ results[cursor].outcome.ok
    /\ lock = "none"
    /\ lock' = "main"
    /\ pc' = "locked"
    /\ UNCHANGED <<file, registry, command, packs, status, res, completion, results,
                   cursor, success_count, failure_count, failures, pb, result,
                   exit_code, cmds, workers, tool, registry0,
                   calls,
                   unitVars>>

\* reg.add_package(package); success_count += 1
MergeInsert ==
    /\ pc = "locked"
    /\ registry' = add_package(registry, Package(results[cursor].outcome.name,
                                                 results[cursor].outcome.version))
    /\ success_count' = success_count + 1
    /\ pc' = "inserted"
    /\ UNCHANGED <<file, command, packs, status, res, completion, results, cursor,
                   lock, failure_count, failures, pb, result, exit_code, cmds,
                   workers, tool, registry0,
                   calls,
                   unitVars>>

\* the guard is dropped at the end of the arm
MergeUnlock ==
    /\ pc = "inserted"
    /\ lock' = "none"
    /\ cursor' = cursor + 1
    /\ pc' = "merge"
    /\ UNCHANGED <<file, registry, command, packs, status, res, completion, results,
                   success_count, failure_count, failures, pb, result, exit_code,
                   cmds, workers, tool, registry0,
                   calls,
                   unitVars>>

\* an Err arm that prints the error and does not count it
MergeFailureUncounted ==
    /\ pc = "merge"
    /\ cursor <= Len(results)
    /\ ~results[cursor].outcome.ok
    /\ failures' = Append(failures, results[cursor])
    /\ cursor' = cursor + 1
    /\ UNCHANGED <<file, pc, registry, command, packs, status, res, completion,
                   results, lock, success_count, failure_count, pb, result,
                   exit_code, cmds, workers, tool, registry0, calls,
                   unitVars>>

\* Err arm: the error is printed and counted
MergeFailure ==
    /\ pc = "merge"
    /\ cursor <= Len(results)
    /\ ~results[cursor].outcome.ok
    /\ failures' = Append(failures, results[cursor])
    /\ failure_count' = failure_count + 1
    /\ cursor' = cursor + 1
    /\ UNCHANGED <<file, pc, registry, command, packs, status, res, completion,
                   results, lock, success_count, pb, result, exit_code, cmds,
                   workers, tool, registry0,
                   calls,
                   unitVars>>

\* a summary that fails only when more than one item failed
summary_result_off_by_one(failed) == IF failed > 1 THEN ErrCount(failed) ELSE OkUnit

\* the summary line and the value process_installation_results returns
summary_result(failed) == IF failed > 0 THEN ErrCount(failed) ELSE OkUnit

Summary ==
    /\ pc = "merge"
    /\ cursor > Len(results)
    /\ result' = summary_result(failure_count)
    /\ pc' = "returned"
    /\ UNCHANGED <<file, registry, command, packs, batchVars, exit_code, cmds,
                   workers, tool, registry0,
                   calls,
                   unitVars>>

DeleteNames == {N_a, N_b, <<" ">>}
UpdateNames == {N_a, N_b}
UpdateVersions == {V_1, <<>>}

Delete ==
    /\ pc = "loaded"
    /\ \E name \in DeleteNames, py \in BOOLEAN, out \in CommandOutcomes :
          /\ command' = [NoCommand EXCEPT !.kind = "delete", !.name = name]
          /\ tool' = <<[install |-> IF trim(name) # <<>> /\ py THEN out ELSE "not_run",
                        query |-> Q_not_run]>>
          /\ Returns(delete_package(registry, name, py, out))
    /\ UNCHANGED <<file, packs, batchVars, exit_code, workers, registry0,
                   calls,
                   unitVars>>

Update ==
    /\ pc = "loaded"
    /\ \E name \in UpdateNames, version \in UpdateVersions, py \in BOOLEAN,
          out \in CommandOutcomes, qout \in QueryOutputs :
          /\ command' = [NoCommand EXCEPT !.kind = "update", !.name = name,
                                          !.version = version]
          /\ LET ran == trim(name) # <<>> /\ trim(version) # <<>> /\ py IN
             tool' = <<[install |-> IF ran THEN out ELSE "not_run",
                        query |-> IF ran /\ out = "ok" THEN qout ELSE Q_not_run]>>
          /\ Returns(update_package(registry, name, version, py, out, qout))
    /\ UNCHANGED <<file, packs, batchVars, exit_code, workers, registry0,
                   calls,
                   unitVars>>

List ==
    /\ pc = "loaded"
    /\ command' = [NoCommand EXCEPT !.kind = "list"]
    /\ Returns(CallResult(registry, OkUnit, <<>>))
    /\ UNCHANGED <<file, packs, batchVars, exit_code, workers, tool, registry0,
                   calls,
                   unitVars>>

(* ------------------------------------------------------------------ *)
(* main: the end of the process                                       *)
(* ------------------------------------------------------------------ *)
\* the command failed: process::exit(get_exit_code(&e))
ExitOnError ==
    /\ pc = "returned"
    /\ ~result.ok
    /\ exit_code' = get_exit_code(result)
    /\ pc' = "exited"
    /\ UNCHANGED <<file, registry, command, packs, batchVars, result, cmds,
                   workers, tool, registry0,
                   calls,
                   unitVars>>

\* how save_packages can end: the file is written, File::create fails, or the
\* write into the created (truncated) file fails
SaveOutcomes == {"written", "create_err", "write_err"}

save_packages(f, reg, how) ==
    CASE how = "written" -> [ok |-> TRUE, file |-> FileOk(reg)]
      [] how = "create_err" -> [ok |-> FALSE, file |-> f]
      [] OTHER -> [ok |-> FALSE, file |-> FileCorrupt]

Save ==
    /\ pc = "returned"
    /\ result.ok
    /\ \E how \in SaveOutcomes :
          LET s == save_packages(file, registry, how) IN
          /\ file' = s.file
          /\ exit_code' = IF s.ok THEN 0 ELSE 2
    /\ pc' = "exited"
    /\ UNCHANGED <<registry, command, packs, batchVars, result, cmds, workers, tool,
                   registry0,
                   calls,
                   unitVars>>

Next ==
    \/ Load
    \/ InstallNothing
    \/ InstallSequential
    \/ InstallParallelBegin
    \/ \E i \in DOMAIN status : WorkerStart(i)
    \/ \E i \in DOMAIN status : WorkerFinish(i)
    \/ Finish
    \/ MergeLock
    \/ MergeInsert
    \/ MergeUnlock
    \/ MergeFailure
    \/ Summary
    \/ Delete
    \/ Update
    \/ List
    \/ ExitOnError
    \/ Save

Spec == Init /\ [][Next]_vars

(* ------------------------------------------------------------------ *)
(* The library called directly                                        *)
(* ------------------------------------------------------------------ *)
\* A client of the crate (the integration tests are one) holds a registry and
\* calls the public batch functions itself, with any list, the empty one
\* included; main never passes an empty list on.
LibInit ==
    /\ file = FileMissing
    /\ pc = "loaded"
    /\ registry = Reg0
    /\ registry0 = Reg0
    /\ command = NoCommand
    /\ packs = <<>>
    /\ status = <<>>
    /\ res = <<>>
    /\ completion = <<>>
    /\ results = <<>>
    /\ cursor = 0
    /\ lock = "none"
    /\ success_count = 0
    /\ failure_count = 0
    /\ failures = <<>>
    /\ pb = NoPb
    /\ result = NoResult
    /\ exit_code = -1
    /\ cmds = <<>>
    /\ workers = 0
    /\ calls = 0
    /\ arg = <<>>
    /\ ret = <<>>
    /\ tool = <<>>

LibInstallSequential == InstallSequentialFrom(Batches)

LibInstallParallelBegin == InstallParallelBeginFrom(Batches)

\* the client has the result of an empty batch and goes on to its next call
LibAgain ==
    /\ pc = "returned"
    /\ command.kind = "install"
    /\ packs = <<>>
    /\ pc' = "loaded"
    /\ UNCHANGED <<file, registry, command, packs, batchVars, result, exit_code,
                   cmds, workers, calls, tool, registry0,
                   unitVars>>

LibNext ==
    \/ LibInstallSequential
    \/ LibInstallParallelBegin
    \/ \E i \in DOMAIN status : WorkerStart(i)
    \/ \E i \in DOMAIN status : WorkerFinish(i)
    \/ Finish
    \/ MergeLock
    \/ MergeInsert
    \/ MergeUnlock
    \/ MergeFailure
    \/ Summary
    \/ LibAgain

LibSpec == LibInit /\ [][LibNext]_vars

\* The same, with the scheduling a parallel batch relies on: a worker of the
\* pool that is free takes a pending item, a process that was started exits,
\* and the calling thread, which blocks in collect() and nowhere else, goes on
\* once collect() can return.
PoolTakesItem == \E i \in DOMAIN status : WorkerStart(i)
ProcessExits == \E i \in DOMAIN status : WorkerFinish(i)
CallerGoesOn ==
    Finish \/ MergeLock \/ MergeInsert \/ MergeUnlock \/ MergeFailure \/ Summary

LibFairSpec ==
    /\ LibSpec
    /\ WF_vars(PoolTakesItem)
    /\ WF_vars(ProcessExits)
    /\ WF_vars(CallerGoesOn)

(* ------------------------------------------------------------------ *)
(* Functions of the crate called on their own                         *)
(* ------------------------------------------------------------------ *)
\* everything of main and of a batch at rest
AtRest ==
    /\ file = FileMissing
    /\ command = NoCommand
    /\ packs = <<>>
    /\ status = <<>>
    /\ res = <<>>
    /\ completion = <<>>
    /\ results = <<>>
    /\ cursor = 0
    /\ lock = "none"
    /\ success_count = 0
    /\ failure_count = 0
    /\ failures = <<>>
    /\ pb = NoPb
    /\ result = NoResult
    /\ exit_code = -1
    /\ cmds = <<>>
    /\ workers = 0
    /\ calls = 0
    /\ tool = <<>>

\* the tokens of the unit tests of the parser, and "a==b==c"
T_numpy == <<"n", "u", "m", "p", "y", "=", "=", "1", ".", "2", "1", ".", "0">>
T_requests == <<"r", "e", "q", "u", "e", "s", "t", "s">>
T_noname == <<"=", "=", "1", ".", "0", ".", "0">>
T_noversion == <<"p", "a", "c", "k", "a", "g", "e", "=", "=">>
T_double == <<"a", "=", "=", "b", "=", "=", "c">>
Examples == {T_numpy, T_requests, T_noname, T_noversion, T_double}

\* every string of at most MaxLen characters over a letter, the blank and the
\* character of the separator
Alphabet == {"a", " ", "="}
Tokens == SeqsUpTo(Alphabet, MaxLen) \cup Examples

ParseInit ==
    /\ AtRest
    /\ registry0 = EmptyRegistry
    /\ registry = EmptyRegistry
    /\ pc = "token"
    /\ arg \in Tokens
    /\ ret = <<>>

\* parse_package_spec(arg)
ParseCall ==
    /\ pc = "token"
    /\ ret' = parse_package_spec(arg)
    /\ pc' = "parsed"
    /\ UNCHANGED <<file, registry, command, packs, batchVars, result, exit_code,
                   cmds, workers, calls, tool, registry0, arg>>

ParseNext == ParseCall

ParseSpec == ParseInit /\ [][ParseNext]_vars

\* the registry operations called on a registry of their own, as
\* test_package_registry_operations does; registry0 is the registry before
\* the last call
NoCall == [op |-> "new", name |-> <<>>, version |-> <<>>]
RegNames == {N_a, N_b, N_d}
RegVersions == {V_1, V_2}

RegInit ==
    /\ file = FileMissing
    /\ command = NoCommand
    /\ packs = <<>>
    /\ status = <<>>
    /\ res = <<>>
    /\ completion = <<>>
    /\ results = <<>>
    /\ cursor = 0
    /\ lock = "none"
    /\ success_count = 0
    /\ failure_count = 0
    /\ failures = <<>>
    /\ pb = NoPb
    /\ result = NoResult
    /\ exit_code = -1
    /\ cmds = <<>>
    /\ workers = 0
    /\ calls = 0
    /\ tool = <<>>
    /\ pc = "registry"
    /\ registry = EmptyRegistry
    /\ registry0 = EmptyRegistry
    /\ arg = NoCall
    /\ ret = None

RegAdd ==
    /\ pc = "registry"
    /\ \E n \in RegNames, v \in RegVersions :
          /\ arg' = [op |-> "add", name |-> n, version |-> v]
          /\ registry' = add_package(registry, Package(n, v))
    /\ ret' = None
    /\ registry0' = registry
    /\ UNCHANGED <<file, pc, command, packs, batchVars, result, exit_code, cmds,
                   workers, calls, tool>>

RegRemove ==
    /\ pc = "registry"
    /\ \E n \in RegNames :
          /\ arg' = [op |-> "remove", name |-> n, version |-> <<>>]
          /\ registry' = remove_package(registry, n)
          /\ ret' = removed_package(registry, n)
    /\ registry0' = registry
    /\ UNCHANGED <<file, pc, command, packs, batchVars, result, exit_code, cmds,
                   workers, calls, tool>>

RegGet ==
    /\ pc = "registry"
    /\ \E n \in RegNames :
          /\ arg' = [op |-> "get", name |-> n, version |-> <<>>]
          /\ ret' = get_package(registry, n)
    /\ registry0' = registry
    /\ UNCHANGED <<file, pc, registry, command, packs, batchVars, result,
                   exit_code, cmds, workers, calls, tool>>

RegNext == RegAdd \/ RegRemove \/ RegGet

RegSpec == RegInit /\ [][RegNext]_vars

(* ------------------------------------------------------------------ *)
(* Installing from a requirements file                                *)
(* ------------------------------------------------------------------ *)
\* lines of a requirements file: blank, comment, pinned specs (one with blanks
\* around it, two of the same name), two words with a blank between them, two
\* words with a tab between them
L_blank == <<" ">>
L_comment == <<" ", "#", "a">>
L_b1 == <<" ", "b", "=", "=", "1", " ">>
L_tab == <<"c", "\t", "d">>
Lines == {L_blank, L_comment, S_a1, S_a2, L_b1, S_sp, L_tab}

\* the file at the path given: absent, or its lines
ReqMissing == [exists |-> FALSE, lines |-> <<>>]
ReqFile(lines) == [exists |-> TRUE, lines |-> lines]
ReqFiles == {ReqMissing} \cup {ReqFile(l) : l \in SeqsUpTo(Lines, MaxLines)}

contains_space(s) == \E i \in 1..Len(s) : s[i] = " "

\* whether parse_requirements_file keeps the line
keeps_line(line) ==
    LET t == trim(line) IN
    /\ t # <<>>
    /\ t[1] # "#"
    /\ ~(contains_space(t) /\ ~contains_sep(t))

\* parse_requirements_file: the kept lines, trimmed, in file order
RECURSIVE parse_requirements_file(_)
parse_requirements_file(lines) ==
    IF lines = <<>> THEN <<>>
    ELSE (IF keeps_line(Head(lines)) THEN <<trim(Head(lines))>> ELSE <<>>)
            \o parse_requirements_file(Tail(lines))

ReqInit ==
    /\ AtRest
    /\ registry = Reg0
    /\ registry0 = Reg0
    /\ pc = "loaded"
    /\ arg \in ReqFiles
    /\ ret = <<>>

\* install_from_requirements_impl up to the call of the batch function: the
\* path does not exist, or the file has no package
ReqReturnsEarly ==
    /\ pc = "loaded"
    /\ \/ ~arg.exists /\ result' = ErrOf("IoError")
       \/ arg.exists /\ parse_requirements_file(arg.lines) = <<>> /\ result' = OkUnit
    /\ command' = [NoCommand EXCEPT !.kind = "install"]
    /\ pc' = "returned"
    /\ UNCHANGED <<file, registry, packs, batchVars, exit_code, cmds, workers,
                   calls, tool, registry0, unitVars>>

\* install_from_requirements: the packages of the file go to install_packages
ReqInstallSequential ==
    /\ arg.exists
    /\ parse_requirements_file(arg.lines) # <<>>
    /\ InstallSequentialFrom({parse_requirements_file(arg.lines)})

\* install_from_requirements_parallel
ReqInstallParallelBegin ==
    /\ arg.exists
    /\ parse_requirements_file(arg.lines) # <<>>
    /\ InstallParallelBeginFrom({parse_requirements_file(arg.lines)})

ReqNext ==
    \/ ReqReturnsEarly
    \/ ReqInstallSequential
    \/ ReqInstallParallelBegin
    \/ \E i \in DOMAIN status : WorkerStart(i)
    \/ \E i \in DOMAIN status : WorkerFinish(i)
    \/ Finish
    \/ MergeLock
    \/ MergeInsert
    \/ MergeUnlock
    \/ MergeFailure
    \/ Summary

ReqSpec == ReqInit /\ [][ReqNext]_vars

(* ------------------------------------------------------------------ *)
(* Vocabulary of the properties                                       *)
(* ------------------------------------------------------------------ *)
Items == DOMAIN packs
IsBatch == command.kind = "install" /\ packs # <<>>
SeqReturned == pc = "returned" /\ IsBatch /\ ~command.parallel
ParReturned == pc = "returned" /\ IsBatch /\ command.parallel
BatchReturned == SeqReturned \/ ParReturned
PythonFound == result.err # "PythonNotFound"

Parsed(i) == parse_package_spec(packs[i])
NameOf(i) == Parsed(i).name
\* the Success outcomes: the external install command succeeded on the item
Installed(i) == tool[i].install = "ok"
Successes == {i \in Items : Installed(i)}
Attempted(i) == tool[i].install # "not_run"

\* the version a Success resolves to: the pinned one, else the queried one,
\* else the sentinel
ResolvedVersion(i) ==
    IF Parsed(i).version # None THEN Parsed(i).version[1]
    ELSE LET v == get_installed_version(tool[i].query)
         IN IF v.ok THEN v.version ELSE Unknown

SuccessNames == {NameOf(i) : i \in Successes}
LastSuccess(n) ==
    CHOOSE i \in Successes :
        NameOf(i) = n /\ \A j \in Successes : NameOf(j) = n => j <= i

\* the pre-batch registry with every Success upserted, in input order
ExpectedRegistry ==
    [n \in (DOMAIN registry0) \cup SuccessNames |->
        IF n \in SuccessNames
        THEN Package(n, ResolvedVersion(LastSuccess(n)))
        ELSE registry0[n]]

\* every external command of the batch could be started
NoSpawnError ==
    \A i \in Items :
        /\ tool[i].install # "spawn_err"
        /\ tool[i].query.run => tool[i].query.spawned

DistinctNames ==
    \A i, j \in Items : (Parsed(i).ok /\ Parsed(j).ok /\ i # j) => NameOf(i) # NameOf(j)

(* ------------------------------------------------------------------ *)
(* C1                                                                 *)
(* ------------------------------------------------------------------ *)
\* C1: after any install batch, sequential or parallel, the registry holds
\* exactly its pre-batch entries plus one entry per Success outcome, keyed by
\* the outcome's name; no entry was removed and no Failure added or changed one.
C1_RegistryIsPrePlusSuccesses ==
    BatchReturned =>
        /\ DOMAIN registry = (DOMAIN registry0) \cup SuccessNames
        /\ \A n \in (DOMAIN registry0) \ SuccessNames : registry[n] = registry0[n]
        /\ \A n \in SuccessNames :
               /\ registry[n].name = n
               /\ \E i \in Successes :
                      NameOf(i) = n /\ registry[n].version = ResolvedVersion(i)

(* ------------------------------------------------------------------ *)
(* C2                                                                 *)
(* ------------------------------------------------------------------ *)
\* C2: when a batch call returns an error, every spec whose installation
\* succeeded is in the registry under its name with its resolved version:
\* nothing is rolled back, in sequential and in parallel mode.
C2_SuccessesCommittedOnError ==
    (BatchReturned /\ ~result.ok) =>
        \A i \in Successes :
            /\ NameOf(i) \in DOMAIN registry
            /\ \E j \in Successes :
                   /\ NameOf(j) = NameOf(i)
                   /\ registry[NameOf(i)] = Package(NameOf(i), ResolvedVersion(j))

(* ------------------------------------------------------------------ *)
(* C3                                                                 *)
(* ------------------------------------------------------------------ *)
OkResults == {i \in DOMAIN results : results[i].outcome.ok}

\* C3: in parallel mode with a pool of at least two workers and specs of
\* distinct names, whatever the interleaving of starts and completions, the
\* final registry is the pre-batch registry plus the successful specs' entries,
\* and each success was applied exactly once.
C3_ParallelNoLostOrDuplicatedUpdate ==
    (ParReturned /\ PythonFound /\ workers >= 2 /\ DistinctNames) =>
        /\ registry = ExpectedRegistry
        /\ success_count = Cardinality(Successes)
        /\ OkResults = Successes

\* two workers ran both items at once, the second item completed first, both
\* succeeded, one replacing a pre-batch entry and one adding a new one
C3_Witness ==
    /\ ParReturned
    /\ workers = 2
    /\ packs = <<S_a1, S_b>>
    /\ completion = <<2, 1>>
    /\ Successes = {1, 2}
    /\ registry0 = Reg0
    /\ registry[N_a].version = V_1
    /\ registry[N_b].version = V_3
    /\ registry[N_d] = registry0[N_d]

(* ------------------------------------------------------------------ *)
(* C4                                                                 *)
(* ------------------------------------------------------------------ *)
\* the one pip command of sequential mode succeeds exactly when the tool
\* succeeds on every spec
CombinedOutcome == IF \A i \in Items : Installed(i) THEN "ok" ELSE "nonzero"

\* install_packages on the batch of the parallel run, from the same pre-batch
\* registry and with the same behaviour of the tool on every spec
SequentialRun ==
    install_packages(registry0, packs, TRUE, CombinedOutcome,
                     [i \in Items |-> tool[i].query])

\* C4 as stated: for the same batch and the same per-spec outcomes of the
\* tool, parallel and sequential mode end with the same registry and agree on
\* whether there are failures.
C4_ModesAgree ==
    (ParReturned /\ PythonFound /\ NoSpawnError) =>
        /\ registry = SequentialRun.registry
        /\ result.ok = SequentialRun.result.ok

\* C4 amended: whenever sequential mode returns success on a batch, parallel
\* mode on the same batch and tool outcomes returns success with the same
\* registry and no failure.
C4_ModesAgreeWhenSequentialSucceeds ==
    (ParReturned /\ PythonFound /\ SequentialRun.result.ok) =>
        /\ result.ok
        /\ registry = SequentialRun.registry
        /\ failures = <<>>

C4_Witness ==
    /\ ParReturned
    /\ SequentialRun.result.ok
    /\ packs = <<S_b, S_a1>>
    /\ completion = <<2, 1>>
    /\ tool[1].query = Q_version
    /\ registry0 = Reg0
    /\ registry[N_b].version = V_3
    /\ registry[N_a].version = V_1

(* ------------------------------------------------------------------ *)
(* C5                                                                 *)
(* ------------------------------------------------------------------ *)
ParseFailures == {i \in Items : ~Parsed(i).ok}
InstallCmds == SelectSeq(cmds, LAMBDA c : c.kind = "install")

\* C5 as stated: in either mode, a spec that fails to parse does not keep the
\* other specs of the batch from being dispatched to the external tool.
C5_ParseFailureNeverAborts ==
    (BatchReturned /\ PythonFound /\ ParseFailures # {}) =>
        \A j \in Items \ ParseFailures : Attempted(j)

\* C5 amended: in parallel mode a spec that fails to parse is one Failure, no
\* install command runs for it and every other spec is dispatched and gets its
\* outcome; in sequential mode one such spec aborts the batch with an invalid
\* spec error before any external command, and the registry is unchanged.
C5_ParseFailureByMode ==
    /\ (ParReturned /\ PythonFound) =>
          /\ \A i \in ParseFailures :
                /\ ~results[i].outcome.ok
                /\ results[i].outcome.err = "InvalidPackageSpec"
                /\ ~Attempted(i)
                /\ \E k \in DOMAIN failures : failures[k].item = i
          /\ \A j \in Items \ ParseFailures :
                /\ Attempted(j)
                /\ results[j].outcome.ok = Installed(j)
          /\ Len(InstallCmds) = Cardinality(Items \ ParseFailures)
          /\ success_count + failure_count = Len(packs)
    /\ (SeqReturned /\ PythonFound /\ ParseFailures # {}) =>
          /\ result = ErrOf("InvalidPackageSpec")
          /\ cmds = <<>>
          /\ registry = registry0

C5_Witness ==
    /\ ParReturned
    /\ packs = <<S_bad, S_a1>>
    /\ Installed(2)
    /\ registry0 = Reg0
    /\ registry[N_a].version = V_1
    /\ failure_count = 1

(* ------------------------------------------------------------------ *)
(* C6                                                                 *)
(* ------------------------------------------------------------------ *)
ParseableSpecs ==
    LET valid == SelectSeq(packs, LAMBDA x : parse_package_spec(x).ok)
    IN [i \in 1..Len(valid) |-> package_spec(parse_package_spec(valid[i]))]

AllSpecs == [i \in Items |-> package_spec(Parsed(i))]

\* C6 as stated: sequential mode installs each parsed spec by itself, in input
\* order, going on to the next one whatever happened to the one before.
C6_SequentialInstallsEachSpec ==
    (SeqReturned /\ PythonFound /\ NoSpawnError) =>
        /\ Len(InstallCmds) = Len(ParseableSpecs)
        /\ \A k \in DOMAIN InstallCmds : InstallCmds[k].args = <<ParseableSpecs[k]>>

\* C6 amended: sequential mode hands the specs, in input order, to one external
\* install command, and only when every spec parses; when the call returns
\* success every spec is recorded, a later spec of a name replacing an earlier
\* one; when a spec fails to parse or the command fails, no spec is recorded.
C6_SequentialOneCommand ==
    (SeqReturned /\ PythonFound) =>
        /\ ParseFailures # {} => (cmds = <<>> /\ registry = registry0 /\ ~result.ok)
        /\ ParseFailures = {} =>
              /\ InstallCmds = <<Cmd("install", AllSpecs)>>
              /\ cmds[1] = Cmd("install", AllSpecs)
              /\ Successes # Items => (registry = registry0 /\ ~result.ok)
              /\ result.ok => (Successes = Items /\ registry = ExpectedRegistry)

C6_Witness ==
    /\ SeqReturned
    /\ result.ok
    /\ packs = <<S_a1, S_a2>>
    /\ cmds = <<Cmd("install", <<S_a1, S_a2>>)>>
    /\ registry0 = Reg0
    /\ registry[N_a].version = V_2

(* ------------------------------------------------------------------ *)
(* C7                                                                 *)
(* ------------------------------------------------------------------ *)
Failed == Items \ Successes

\* C7 as stated: in both modes a batch call returns an error exactly when some
\* item has a Failure outcome, and the error carries the number of failed items.
C7_ErrorIffFailuresWithCount ==
    (BatchReturned /\ PythonFound /\ NoSpawnError) =>
        /\ ~result.ok <=> Failed # {}
        /\ ~result.ok => (result.payload = "count" /\ result.count = Cardinality(Failed))

\* C7 amended: with the interpreter found, a parallel batch returns an error
\* exactly when some item failed and the error carries the number of failed
\* items; a sequential batch returns an error whenever some item failed, and
\* its error carries no count.
C7_ErrorAndCountByMode ==
    /\ (ParReturned /\ PythonFound) =>
          /\ ~result.ok <=> Failed # {}
          /\ failure_count = Cardinality(Failed)
          /\ ~result.ok => result = ErrCount(Cardinality(Failed))
          /\ result.ok => result = OkUnit
    /\ SeqReturned =>
          /\ Failed # {} => ~result.ok
          /\ ~result.ok => result.payload # "count"

C7_Witness ==
    /\ ParReturned
    /\ packs = <<S_a1, S_a2>>
    /\ Successes = {2}
    /\ result = ErrCount(1)

(* ------------------------------------------------------------------ *)
(* C8                                                                 *)
(* ------------------------------------------------------------------ *)
\* C8: in parallel mode the failures are reported in input order, whatever the
\* order in which the workers completed, and every failed item is reported.
C8_FailuresInInputOrder ==
    command.parallel =>
        /\ \A k, l \in DOMAIN failures :
              k < l => failures[k].item < failures[l].item
        /\ \A k \in DOMAIN failures :
              /\ failures[k] = res[failures[k].item]
              /\ ~Installed(failures[k].item)
        /\ (ParReturned /\ PythonFound) =>
              {failures[k].item : k \in DOMAIN failures} = Failed

\* both items failed and the second one completed first
C8_Witness ==
    /\ ParReturned
    /\ workers = 2
    /\ Len(packs) = 2
    /\ completion = <<2, 1>>
    /\ Len(failures) = 2
    /\ failures[1].item = 1
    /\ failures[1].outcome.err = "InstallationFailed"

(* ------------------------------------------------------------------ *)
(* C9                                                                 *)
(* ------------------------------------------------------------------ *)
\* C9: when the process exits after a command, whether the command succeeded
\* or failed, the registry file holds the in-memory registry the command left
\* (unless writing the file itself failed).
C9_RegistryPersistedAtExit ==
    (pc = "exited" /\ command.kind # "none" /\ exit_code # 2 /\ NoSpawnError) =>
        load_packages(file).registry = registry

(* ------------------------------------------------------------------ *)
(* C10                                                                *)
(* ------------------------------------------------------------------ *)
\* C10 as stated: finish is signalled at most once, and when it has been
\* signalled every Success is already merged into the registry, so that no
\* registry mutation of the batch comes after it.
C10_FinishAfterMerge ==
    /\ pb.finished <= 1
    /\ pb.finished = 1 => registry = ExpectedRegistry

\* C10 amended: in a parallel batch with the interpreter found, finish is
\* signalled exactly once, only after every item has completed, and before the
\* merge: until finish the registry, the counts and the failure lines are
\* untouched. A sequential batch has no progress reporter and signals nothing.
C10_FinishAfterItemsBeforeMerge ==
    /\ pb.finished <= 1
    /\ pb.finished = 1 =>
          /\ command.parallel
          /\ \A i \in Items : status[i] = "done"
    /\ (command.parallel /\ pb.finished = 0) =>
          /\ registry = registry0
          /\ success_count = 0
          /\ failure_count = 0
          /\ failures = <<>>
    /\ (ParReturned /\ PythonFound) => pb.finished = 1
    /\ ~command.parallel => (~pb.created /\ pb.finished = 0)

\* the first Success is being merged after finish was signalled
C10_Witness ==
    /\ pc = "inserted"
    /\ pb.finished = 1
    /\ Len(packs) = 2
    /\ cursor = 1
    /\ registry # registry0
    /\ success_count = 1

(* ------------------------------------------------------------------ *)
(* C11                                                                *)
(* ------------------------------------------------------------------ *)
Done == {i \in DOMAIN status : status[i] = "done"}

\* C11 as stated: a batch for which the interpreter was found has announced the
\* progress reporter with its number of specs and, when it has returned, has
\* advanced it once per spec.
C11_ProgressOncePerItem ==
    (BatchReturned /\ PythonFound) =>
        /\ pb.created
        /\ pb.len = Len(packs)
        /\ pb.pos = Len(packs)

\* C11 amended: in a parallel batch with the interpreter found the reporter is
\* announced with the number of specs, its position is at every moment the
\* number of completed items (each item completes once, whether it succeeded,
\* failed to install or failed to parse), and from finish on the position is the
\* number of specs. A sequential batch has no progress reporter.
C11_ProgressOncePerParallelItem ==
    /\ pb.created =>
          /\ command.parallel
          /\ pb.len = Len(packs)
          /\ pb.pos = Cardinality(Done)
          /\ Len(completion) = pb.pos
          /\ {completion[k] : k \in DOMAIN completion} = Done
          /\ pb.finished = 1 => pb.pos = Len(packs)
    /\ (command.parallel /\ IsBatch /\ pc # "loaded" /\ PythonFound) => pb.created
    /\ (command.parallel /\ IsBatch /\ ~PythonFound) => ~pb.created
    /\ ~command.parallel => pb = NoPb

\* finish is signalled for a batch of two in which the second item completed
\* first, one item failed to parse, one failed to install
C11_Witness ==
    /\ pb.finished = 1
    /\ pb.pos = 2
    /\ completion = <<2, 1>>
    /\ ~Parsed(2).ok
    /\ tool[1].install = "nonzero"

(* ------------------------------------------------------------------ *)
(* C12                                                                *)
(* ------------------------------------------------------------------ *)
\* the version query of item i was issued and gave no version: it could not be
\* started, exited non-zero, or printed no "Version: " line
QueryFailed(i) ==
    /\ tool[i].query.run
    /\ LET v == get_installed_version(tool[i].query)
       IN ~v.ok \/ v.version = Unknown

\* C12: when the install of a spec without a version succeeded and its version
\* query failed, the batch still records the item: the registry has its name, at
\* version "unknown" unless a later item of the same name was recorded, and the
\* failed query is not the error of the batch. Both modes.
C12_QueryFailureYieldsUnknown ==
    BatchReturned =>
        \A i \in Items :
            (IsVersionless(packs[i]) /\ Installed(i) /\ QueryFailed(i)) =>
                /\ NameOf(i) \in DOMAIN registry
                /\ LastSuccess(NameOf(i)) = i =>
                      registry[NameOf(i)] = Package(NameOf(i), Unknown)
                /\ result.err # "IoError"

(* ------------------------------------------------------------------ *)
(* C13                                                                *)
(* ------------------------------------------------------------------ *)
DeleteReturned == pc = "returned" /\ command.kind = "delete"
\* how the one external command of a delete or an update ended
Ran == tool[1].install

\* C13: delete_package removes the entry of the name only after the uninstall
\* command reported success. With an empty name or no interpreter the command
\* is not run; whenever it did not succeed the call returns an error and the
\* registry is the one before the call. On success the name is absent and every
\* other entry is as it was.
C13_DeleteOnlyAfterUninstall ==
    DeleteReturned =>
        /\ trim(command.name) = <<>> => Ran = "not_run"
        /\ ~PythonFound => Ran = "not_run"
        /\ Ran # "ok" => (~result.ok /\ registry = registry0)
        /\ Ran = "ok" =>
              /\ result.ok
              /\ command.name \notin DOMAIN registry
              /\ DOMAIN registry = (DOMAIN registry0) \ {command.name}
              /\ \A n \in DOMAIN registry : registry[n] = registry0[n]

\* a recorded package was deleted and another recorded package stayed
C13_Witness ==
    /\ DeleteReturned
    /\ Ran = "ok"
    /\ command.name = N_a
    /\ N_a \in DOMAIN registry0
    /\ DOMAIN registry = {N_d}

(* ------------------------------------------------------------------ *)
(* C14                                                                *)
(* ------------------------------------------------------------------ *)
UpdateReturned == pc = "returned" /\ command.kind = "update"

\* C14: when the upgrade-install of update_package succeeded the registry has
\* one entry for the name, at the version the post-install query reported when
\* it reported one, and every other entry is as it was; when the name or the
\* version is empty or the upgrade-install did not succeed the call returns an
\* error and the registry is the one before the call.
C14_UpdateRecordsQueriedVersion ==
    UpdateReturned =>
        /\ (trim(command.name) = <<>> \/ trim(command.version) = <<>>) =>
              Ran = "not_run"
        /\ Ran # "ok" => (~result.ok /\ registry = registry0)
        /\ Ran = "ok" =>
              /\ result.ok
              /\ DOMAIN registry = (DOMAIN registry0) \cup {command.name}
              /\ registry[command.name].name = command.name
              /\ tool[1].query = Q_version => registry[command.name].version = V_3
              /\ \A n \in (DOMAIN registry0) \ {command.name} :
                    registry[n] = registry0[n]

(* ------------------------------------------------------------------ *)
(* C15                                                                *)
(* ------------------------------------------------------------------ *)
EmptyBatch == command.kind = "install" /\ packs = <<>> /\ calls > 0
EmptyReturned == pc = "returned" /\ EmptyBatch

\* C15: a batch function called with an empty list, sequential or parallel,
\* returns Ok at once: after any number of such calls the registry is the one
\* the client started with, no external command was run, no item outcome was
\* produced or counted and the progress bar was never created.
C15_EmptyBatchIsNoOp ==
    /\ EmptyReturned => result = OkUnit
    /\ EmptyBatch =>
          /\ registry = registry0
          /\ cmds = <<>>
          /\ tool = <<>>
          /\ status = <<>>
          /\ results = <<>>
          /\ pb = NoPb
          /\ success_count = 0
          /\ failure_count = 0
          /\ failures = <<>>
          /\ lock = "none"

\* the second empty batch in a row, a parallel one, has returned
C15_Witness ==
    /\ EmptyReturned
    /\ command.parallel
    /\ calls = MaxCalls
    /\ registry = Reg0
    /\ result.ok

(* ------------------------------------------------------------------ *)
(* C16                                                                *)
(* ------------------------------------------------------------------ *)
\* the batch of the scenario has returned, the tool installed a and b and
\* every command could be started
ScenarioReturned ==
    /\ BatchReturned
    /\ packs = Scenario
    /\ PythonFound
    /\ Installed(1)
    /\ Installed(2)
    /\ NoSpawnError

ScenarioRegistry ==
    add_package(add_package(registry0, Package(N_a, V_1)),
                Package(N_b, ResolvedVersion(2)))

\* C16: for the batch "a==1.0", "b", "bad spec with space", with a and b
\* installed by the tool, in either mode the third token fails to parse and is
\* not handed to the tool, the counts are 2 succeeded and 1 failed, the registry
\* gains a at 1.0 and b at its resolved version, and the one failure line is the
\* third token's.
C16_ScenarioThirdFailsToParse ==
    ScenarioReturned =>
        /\ ~Parsed(3).ok
        /\ ~Attempted(3)
        /\ \A k \in DOMAIN cmds : \A a \in DOMAIN cmds[k].args :
              cmds[k].args[a] # trim(S_sp)
        /\ success_count = 2
        /\ failure_count = 1
        /\ registry = ScenarioRegistry
        /\ Len(failures) = 1
        /\ failures[1].item = 3

(* ------------------------------------------------------------------ *)
(* C17                                                                *)
(* ------------------------------------------------------------------ *)
DeleteOfAbsent ==
    /\ command.kind = "delete"
    /\ trim(command.name) # <<>>
    /\ command.name \notin DOMAIN registry0

\* C17: a delete of a name the registry does not have returns PackageNotFound
\* even when the uninstall command reports success, the registry stays as it
\* was and the process exits with the code of that error, 6.
C17_DeleteAbsentIsNotFound ==
    /\ (pc = "returned" /\ DeleteOfAbsent /\ Ran = "ok") =>
          /\ result.err = "PackageNotFound"
          /\ registry = registry0
    /\ (pc = "exited" /\ DeleteOfAbsent /\ Ran = "ok") => exit_code = 6

(* ------------------------------------------------------------------ *)
(* C18                                                                *)
(* ------------------------------------------------------------------ *)
KeysAreNames(reg) == \A n \in DOMAIN reg : reg[n].name = n
\* no batch is in flight: main has the registry in hand before or after a command
Quiescent == pc \in {"loaded", "returned", "exited"}

RECURSIVE MergedUpTo(_)
MergedUpTo(k) ==
    IF k = 0 THEN registry0
    ELSE IF results[k].outcome.ok
    THEN add_package(MergedUpTo(k - 1),
                     Package(results[k].outcome.name, results[k].outcome.version))
    ELSE MergedUpTo(k - 1)

ParallelInFlight == pc \in {"workers", "merge", "locked", "inserted"}

\* while the lock is free the registry holds whole entries only: the Ok results
\* before the cursor, each merged in full; the lock is held by main alone, only
\* while one result is being merged and with no item pending or running
LockDiscipline ==
    /\ lock \in {"none", "main"}
    /\ lock = "main" <=> pc \in {"locked", "inserted"}
    /\ lock = "main" =>
          /\ command.parallel
          /\ Running = {}
          /\ \A i \in Items : status[i] = "done"
          /\ results[cursor].outcome.ok
    /\ pc = "workers" => registry = registry0
    /\ pc = "merge" => registry = MergedUpTo(cursor - 1)
    /\ pc = "locked" => registry = MergedUpTo(cursor - 1)
    /\ pc = "inserted" => registry = MergedUpTo(cursor)

\* a step of a parallel batch that changes the registry is the insert of the one
\* entry of the result at the cursor, taken with the lock held before and after
MutationUnderLock ==
    (ParallelInFlight /\ registry' # registry) =>
        /\ lock = "main"
        /\ lock' = "main"
        /\ pc = "locked"
        /\ pc' = "inserted"
        /\ registry' = [n \in (DOMAIN registry) \cup {results[cursor].outcome.name} |->
                           IF n = results[cursor].outcome.name
                           THEN [name |-> n, version |-> results[cursor].outcome.version]
                           ELSE registry[n]]

\* C19: every registry mutation of a parallel batch is one insert made under
\* the lock (acquire, insert one entry, release); the lock has at most one
\* holder, is never held while an external process runs, and whoever takes it
\* finds only fully merged entries.
C19_MergeUnderLock == []LockDiscipline /\ [][MutationUnderLock]_vars

\* the second Success of a batch is inserted with the lock held
C19_Witness ==
    /\ pc = "inserted"
    /\ lock = "main"
    /\ cursor = 2
    /\ success_count = 2
    /\ registry # registry0

(* ------------------------------------------------------------------ *)
(* C20                                                                *)
(* ------------------------------------------------------------------ *)
OkOutcomes == {i \in DOMAIN results : results[i].outcome.ok}
ErrOutcomes == {i \in DOMAIN results : ~results[i].outcome.ok}

\* C20 as stated: a batch of either mode that ran has one outcome per spec, and
\* its counts are the number of Success outcomes, the number of Failure
\* outcomes, and together the number of specs.
C20_OneOutcomePerSpec ==
    (BatchReturned /\ PythonFound /\ NoSpawnError) =>
        /\ success_count = Cardinality(Successes)
        /\ failure_count = Cardinality(Failed)
        /\ success_count + failure_count = Len(packs)

\* C20 amended: a parallel batch with the interpreter found collects one
\* outcome per spec, at the position of the spec, for every completion order;
\* succeeded is the number of Ok outcomes (the items the tool installed), failed
\* the number of Err outcomes, and they add up to the number of specs. A
\* sequential batch collects no outcomes and counts nothing.
C20_OneOutcomePerParallelSpec ==
    /\ (command.parallel /\ pc \in {"merge", "locked", "inserted"}) =>
          /\ Len(results) = Len(packs)
          /\ \A i \in DOMAIN results : results[i].item = i
          /\ OkOutcomes = Successes
          /\ ErrOutcomes = Failed
          /\ success_count = Cardinality({i \in OkOutcomes : i < cursor})
                                + (IF pc = "inserted" THEN 1 ELSE 0)
          /\ failure_count = Cardinality({i \in ErrOutcomes : i < cursor})
    /\ (ParReturned /\ PythonFound) =>
          /\ Len(results) = Len(packs)
          /\ success_count = Cardinality(OkOutcomes)
          /\ success_count = Cardinality(Successes)
          /\ failure_count = Cardinality(ErrOutcomes)
          /\ failure_count = Cardinality(Failed)
          /\ success_count + failure_count = Len(packs)
    /\ (IsBatch /\ ~command.parallel) =>
          /\ results = <<>>
          /\ success_count = 0
          /\ failure_count = 0

\* a batch of two whose second item completed first has returned with one
\* Success and one Failure
C20_Witness ==
    /\ ParReturned
    /\ completion = <<2, 1>>
    /\ success_count = 1
    /\ failure_count = 1
    /\ Successes = {2}

(* ------------------------------------------------------------------ *)
(* C21                                                                *)
(* ------------------------------------------------------------------ *)
IsPinned(i) == Parsed(i).ok /\ Parsed(i).version # None
RequestedVersion(i) == Parsed(i).version[1]

\* C21: when the install of a spec name==version succeeded, the batch records
\* the item with exactly the requested version: the registry has the name, at
\* that version unless a later item of the same name was recorded, the outcome
\* collected in parallel mode is Ok(name, version), and no version query was
\* issued for the item. Both modes.
C21_PinnedVersionRecorded ==
    BatchReturned =>
        \A i \in Items :
            (IsPinned(i) /\ Installed(i)) =>
                /\ tool[i].query = Q_not_run
                /\ \A k \in DOMAIN cmds : cmds[k] # Cmd("show", <<NameOf(i)>>)
                /\ NameOf(i) \in DOMAIN registry
                /\ LastSuccess(NameOf(i)) = i =>
                      registry[NameOf(i)] = Package(NameOf(i), RequestedVersion(i))
                /\ command.parallel =>
                      results[i].outcome = ItemOk(NameOf(i), RequestedVersion(i))

(* ------------------------------------------------------------------ *)
(* C22                                                                *)
(* ------------------------------------------------------------------ *)
Blank(s, from, to) == \A k \in from..to : s[k] = " "

\* t is s without its leading and trailing blanks
IsTrimOf(t, s) ==
    \E i, j \in 0..Len(s) :
        /\ i + j <= Len(s)
        /\ t = SubSeq(s, i + 1, Len(s) - j)
        /\ Blank(s, 1, i)
        /\ Blank(s, Len(s) - j + 1, Len(s))
        /\ t # <<>> => (t[1] # " " /\ t[Len(t)] # " ")

SepAt(t, i) == i \in 1..(Len(t) - 1) /\ t[i] = "=" /\ t[i + 1] = "="
IsFirstSep(t, i) == SepAt(t, i) /\ \A j \in 1..(i - 1) : ~SepAt(t, j)

\* r is what the claim says the parser returns for the raw token s
ParsesAs(s, r) ==
    \E t \in {SubSeq(s, i, j) : i \in 1..(Len(s) + 1), j \in 0..Len(s)} :
        /\ IsTrimOf(t, s)
        /\ IF t = <<>> THEN ~r.ok
           ELSE IF \A i \in 1..Len(t) : ~SepAt(t, i)
           THEN r = [ok |-> TRUE, name |-> t, version |-> <<>>, err |-> "none"]
           ELSE \E i \in 1..Len(t) :
                   /\ IsFirstSep(t, i)
                   /\ \E n \in {SubSeq(t, a, b) : a \in 1..i, b \in 0..(i - 1)},
                         v \in {SubSeq(t, a, b) : a \in (i + 2)..(Len(t) + 1),
                                                  b \in (i + 1)..Len(t)} :
                         /\ IsTrimOf(n, SubSeq(t, 1, i - 1))
                         /\ IsTrimOf(v, SubSeq(t, i + 2, Len(t)))
                         /\ IF n # <<>> /\ v # <<>>
                            THEN r = [ok |-> TRUE, name |-> n, version |-> <<v>>,
                                      err |-> "none"]
                            ELSE ~r.ok

\* C22: for every raw token parse_package_spec trims it, fails when nothing is
\* left, splits at the first "==" only, returns the trimmed token without a
\* version when there is no separator, and with a separator returns the two
\* trimmed sides when both are non-empty and fails otherwise; the tokens of
\* the unit tests parse as the tests say, and "a==b==c" gives a and "b==c".
C22_ParserRules ==
    pc = "parsed" =>
        /\ ParsesAs(arg, ret)
        /\ arg = T_numpy =>
              (ret.ok /\ ret.name = <<"n", "u", "m", "p", "y">>
                      /\ ret.version = <<(<<"1", ".", "2", "1", ".", "0">>)>>)
        /\ arg = T_requests => (ret.ok /\ ret.name = T_requests /\ ret.version = <<>>)
        /\ arg \in {<<>>, T_noname, T_noversion} => ~ret.ok
        /\ arg = T_double =>
              (ret.ok /\ ret.name = <<"a">>
                      /\ ret.version = <<(<<"b", "=", "=", "c">>)>>)

\* "a==b==c" was parsed: the name is a, the version keeps the second separator
C22_Witness ==
    /\ pc = "parsed"
    /\ arg = T_double
    /\ ret.ok
    /\ ret.version = <<(<<"b", "=", "=", "c">>)>>

(* ------------------------------------------------------------------ *)
(* C23                                                                *)
(* ------------------------------------------------------------------ *)
\* C23: whatever the state of packages.json, loading does not end the
\* program: once main is past the load it holds a registry and goes on to the
\* command, with the empty registry for a missing, a corrupt and an unreadable
\* file.
C23_LoadNeverFatal ==
    pc # "start" =>
        /\ command.kind = "none" => pc = "loaded"
        /\ file.state \in {"missing", "corrupt", "unreadable"} /\ pc = "loaded" =>
              registry = EmptyRegistry

(* ------------------------------------------------------------------ *)
(* C24                                                                *)
(* ------------------------------------------------------------------ *)
SameElsewhere(n) ==
    /\ (DOMAIN registry) \ {n} = (DOMAIN registry0) \ {n}
    /\ \A m \in (DOMAIN registry) \ {n} : registry[m] = registry0[m]

\* C24: the registry is a map keyed by name. After add_package(p) the entry of
\* p.name is p, whatever was there, and the other names are untouched;
\* remove_package(n) returns the entry n had, or nothing, n is then absent and
\* the other names are untouched; get_package returns the entry of the name or
\* nothing; is_empty holds exactly when the map has no entry, so a removal of
\* the one name of a registry leaves it empty.
C24_RegistryIsKeyedMap ==
    pc = "registry" =>
        /\ arg.op = "add" =>
              /\ arg.name \in DOMAIN registry
              /\ registry[arg.name] = [name |-> arg.name, version |-> arg.version]
              /\ get_package(registry, arg.name) =
                    <<[name |-> arg.name, version |-> arg.version]>>
              /\ SameElsewhere(arg.name)
              /\ ~is_empty(registry)
        /\ arg.op = "remove" =>
              /\ arg.name \in DOMAIN registry0 => ret = <<registry0[arg.name]>>
              /\ arg.name \notin DOMAIN registry0 => ret = <<>>
              /\ arg.name \notin DOMAIN registry
              /\ get_package(registry, arg.name) = <<>>
              /\ SameElsewhere(arg.name)
              /\ DOMAIN registry0 \subseteq {arg.name} => is_empty(registry)
        /\ arg.op = "get" =>
              /\ registry = registry0
              /\ arg.name \in DOMAIN registry => ret = <<registry[arg.name]>>
              /\ arg.name \notin DOMAIN registry => ret = <<>>
        /\ is_empty(registry) <=> \A n \in RegNames : n \notin DOMAIN registry

\* the entry of a, the only one, was removed and returned: the registry is empty
C24_Witness ==
    /\ pc = "registry"
    /\ arg.op = "remove"
    /\ arg.name = N_a
    /\ registry0 = add_package(EmptyRegistry, Package(N_a, V_2))
    /\ ret = <<Package(N_a, V_2)>>
    /\ is_empty(registry)


(* ------------------------------------------------------------------ *)
(* C25: a requirements file is the batch of its spec lines            *)
(* ------------------------------------------------------------------ *)
HasWhitespace(s) == \E i \in 1..Len(s) : IsWhitespace(s[i])

\* a line that remains: not blank, not a comment, and not one with whitespace
\* in it and no separator
Remains(line) ==
    LET t == trim(line) IN
    /\ t # <<>>
    /\ t[1] # "#"
    /\ ~(HasWhitespace(t) /\ ~contains_sep(t))

RECURSIVE RemainingSpecs(_)
RemainingSpecs(lines) ==
    IF lines = <<>> THEN <<>>
    ELSE (IF Remains(Head(lines)) THEN <<trim(Head(lines))>> ELSE <<>>)
            \o RemainingSpecs(Tail(lines))

ReqReturned == pc = "returned" /\ arg \in ReqFiles /\ arg.exists
AllPinnedInstalled == \A i \in Items : IsPinned(i) /\ Installed(i)

\* C25: installing from a requirements file runs the batch of the remaining
\* lines of the file, trimmed, in file order, where blank lines, comment lines
\* and lines with whitespace and no "==" do not remain; when every remaining
\* line is a pinned spec that the tool installs, the call succeeds and the
\* registry has one entry per remaining line, at the version of the line, added
\* to the entries it had; a file with no remaining line is a successful no-op.
C25_FileIsBatchOfItsLines ==
    ReqReturned =>
        IF RemainingSpecs(arg.lines) = <<>>
        THEN result = OkUnit /\ registry = registry0 /\ cmds = <<>>
        ELSE /\ packs = RemainingSpecs(arg.lines)
             /\ AllPinnedInstalled =>
                    /\ result = OkUnit
                    /\ DOMAIN registry = (DOMAIN registry0) \cup {NameOf(i) : i \in Items}
                    /\ \A i \in Items :
                           registry[NameOf(i)] = Package(NameOf(i), RequestedVersion(i))


(* ------------------------------------------------------------------ *)
(* C26: of several successes of one name, the last in input order wins *)
(* ------------------------------------------------------------------ *)
\* the names that several items of the batch install successfully
RepeatedNames ==
    {n \in SuccessNames : \E i, j \in Successes : i # j /\ NameOf(i) = n /\ NameOf(j) = n}

\* C26: after a parallel batch the entry of a name that several specs installed
\* successfully carries the version of the successful spec that is last in
\* input order, whatever the order in which the workers completed; the final
\* registry is the pre-batch registry with the successes upserted in input
\* order, a function of the input list and the per-spec outcomes alone.
C26_LastInInputOrderWins ==
    (ParReturned /\ PythonFound) =>
        /\ \A n \in RepeatedNames :
               /\ n \in DOMAIN registry
               /\ registry[n] = Package(n, ResolvedVersion(LastSuccess(n)))
        /\ \A n \in DOMAIN registry :
               registry[n] = IF n \in SuccessNames
                             THEN Package(n, ResolvedVersion(LastSuccess(n)))
                             ELSE registry0[n]
        /\ DOMAIN registry = (DOMAIN registry0) \cup SuccessNames

\* a==2 then a==1, both installed, the second completed first: the entry is a@1
C26_Witness ==
    /\ ParReturned
    /\ packs = <<S_a2, S_a1>>
    /\ completion = <<2, 1>>
    /\ Successes = {1, 2}
    /\ RepeatedNames = {N_a}
    /\ registry[N_a].version = V_1


(* ------------------------------------------------------------------ *)
(* C27: a sequential batch that fails records nothing                 *)
(* ------------------------------------------------------------------ *)
SomeSpecInvalid == \E i \in Items : ~Parsed(i).ok
ToolNotLocated == ~SomeSpecInvalid /\ \A i \in Items : tool[i].install = "not_run"
ExitedNonZero == \E i \in Items : tool[i].install = "nonzero"

\* C27: a sequential batch runs at most one external install command, and that
\* command carries every spec of the batch in input order; when a raw spec does
\* not parse or the interpreter is not found no command is run at all; in these
\* two cases and when the command exits non-zero the call returns an error and
\* the registry is the one before the call.
C27_SequentialFailureRecordsNothing ==
    SeqReturned =>
        /\ Len(InstallCmds) <= 1
        /\ \A k \in DOMAIN InstallCmds :
               /\ cmds[1] = InstallCmds[k]
               /\ InstallCmds[k].args = [i \in Items |-> package_spec(Parsed(i))]
        /\ (SomeSpecInvalid \/ ToolNotLocated) => cmds = <<>>
        /\ ExitedNonZero => Len(cmds) = 1
        /\ (SomeSpecInvalid \/ ToolNotLocated \/ ExitedNonZero) =>
               /\ ~result.ok
               /\ registry = registry0
        /\ (SomeSpecInvalid /\ PythonFound) => result.err = "InvalidPackageSpec"
        /\ ToolNotLocated => result.err = "PythonNotFound"
        /\ ExitedNonZero => result.err = "InstallationFailed"

\* the one command of a batch of two specs exited non-zero
C27_Witness ==
    /\ SeqReturned
    /\ Len(packs) = 2
    /\ ExitedNonZero
    /\ Len(cmds) = 1
    /\ Len(cmds[1].args) = 2
    /\ result.err = "InstallationFailed"
    /\ registry = registry0
    /\ registry0 = Reg0


(* ------------------------------------------------------------------ *)
(* C28: a parallel batch returns, with every item run once            *)
(* ------------------------------------------------------------------ *)
Dispatched == pc = "workers"
TimesCompleted(i) == Cardinality({k \in DOMAIN completion : completion[k] = i})
ParsedItems == {i \in Items : Parsed(i).ok}

\* every item is done, completed once, has an outcome at its place, and was
\* handed to the external tool once if it parsed and never if it did not
EveryItemRanOnce ==
    /\ DOMAIN status = Items
    /\ DOMAIN results = Items
    /\ Len(completion) = Len(packs)
    /\ Len(InstallCmds) = Cardinality(ParsedItems)
    /\ \A i \in Items :
          /\ status[i] = "done"
          /\ TimesCompleted(i) = 1
          /\ results[i].item = i
          /\ results[i].outcome.err # "pending"
          /\ Parsed(i).ok <=> Attempted(i)

\* an item that is done stays done, with the result it has
DoneIsFinal ==
    \A i \in DOMAIN status :
        (pc = "workers" /\ status[i] = "done") =>
            /\ status'[i] = "done"
            /\ res'[i] = res[i]

\* C28: with fair workers and external processes that exit, a parallel batch
\* that was dispatched returns; when it has returned every item is done, has
\* completed exactly once and has its outcome, whatever the outcomes of the
\* other items; and no item that is done is run again.
C28_ParallelBatchRunsToCompletion ==
    /\ Dispatched ~> ParReturned
    /\ [](((ParReturned /\ PythonFound)) => EveryItemRanOnce)
    /\ [][DoneIsFinal]_vars

\* one worker: the first item failed, the second was run after it and installed
C28_Witness ==
    /\ ParReturned
    /\ workers = 1
    /\ packs = <<S_a1, S_b>>
    /\ completion = <<1, 2>>
    /\ tool[1].install = "nonzero"
    /\ tool[2].install = "ok"
    /\ EveryItemRanOnce
    /\ failure_count = 1
    /\ success_count = 1

====
